---- MODULE Spec2Model ----
(***************************************************************************)
(* State-of-Quantum: five textbook quantum algorithms written as gate      *)
(* sequences on a circuit object (Bernstein-Vazirani, Deutsch-Jozsa,       *)
(* Quantum Fourier Transform, Quantum Phase Estimation, Simon's problem).  *)
(*                                                                         *)
(* A circuit is the sequence of gates appended to it.  An ideal run of a   *)
(* circuit is one shot of a noise-free simulator: the amplitude vector is  *)
(* updated gate by gate and every measurement picks one outcome of         *)
(* non-zero probability, so the reachable final states are exactly the     *)
(* outcomes that can appear in the counts.  Amplitudes are kept            *)
(* unnormalised (a Hadamard adds and subtracts without the 1/sqrt(2)), so  *)
(* they stay integers; only "zero or not" is ever read from them.          *)
(*                                                                         *)
(* Python strings are sequences of one-character strings; Python index i   *)
(* is TLA+ index i+1 (operator Idx).                                       *)
(***************************************************************************)
EXTENDS Integers, Sequences, FiniteSets, TLC

VARIABLES
    self,       \* attributes of the algorithm object: attribute name -> value
    pc,         \* position of the caller / of the method that is running
    circuit,    \* gate sequence of the circuit object the methods work on
    loc,        \* local variables (and random draws) of the running method
    amp,        \* simulator: amplitude of every basis state
    clbits,     \* simulator: classical bits written by measure
    ip,         \* simulator: index of the next gate of the circuit to run
    ret         \* values returned to the caller so far

vars == <<self, pc, circuit, loc, amp, clbits, ip, ret>>

\* ---------------------------------------------------------------- bounds
\* largest number of input qubits / longest bitstring of BV and DJ
MaxBits == 3
\* longest bitstring of a simulated Simon circuit (2n qubits)
MaxSimonLen == 2
\* longest bitstring of a Simon oracle that is built but not simulated
MaxPermLen == 4
\* largest number of qubits of a QuantumFourierTransform object
MaxQubits == 4
\* largest number of algorithm() calls on one QuantumFourierTransform object
MaxCalls == 2
\* largest number of counting qubits of a QuantumPhaseEstimation object
MaxCounting == 3
\* largest repetitions argument of QuantumPhaseEstimation.algorithm()
MaxReps == 2
\* largest number of simulation() / run_quantum_hardware() calls on one circuit
MaxRuns == 2

\* ------------------------------------------------------- Python helpers
NoAttrs == [a \in {} |-> 0]

Bit == {"0", "1"}

BitStrings(n) == [1..n -> Bit]

BitStringsUpTo(m) == UNION {BitStrings(n) : n \in 0..m}

Idx(s, i) == s[i + 1]

\* s[::-1]
ReverseStr(s) == [i \in 1..Len(s) |-> s[Len(s) + 1 - i]]

\* range(n) as a sequence 0, 1, ..., n-1
Range(n) == [i \in 1..n |-> i - 1]

RECURSIVE Flatten(_)
Flatten(ss) == IF ss = <<>> THEN <<>> ELSE Head(ss) \o Flatten(Tail(ss))

\* ---------------------------------------------------------------- gates
\* One gate of a circuit.  q0 is the (first / control) qubit, q1 the second
\* (target) qubit or the classical bit of a measure, -1 when unused.  The
\* angle of a controlled-phase gate is num/den in units of pi.
Gate(g, q0, q1, num, den) == [g |-> g, q0 |-> q0, q1 |-> q1, num |-> num, den |-> den]

G1(g, q) == Gate(g, q, -1, 0, 1)

G2(g, a, b) == Gate(g, a, b, 0, 1)

CP(num, den, control, target) == Gate("cp", control, target, num, den)

Barrier == Gate("barrier", -1, -1, 0, 1)

\* ------------------------------------------------------ ideal simulator
Pow2(k) == 2 ^ k

BitOf(x, q) == (x \div Pow2(q)) % 2

FlipBit(x, q) == IF BitOf(x, q) = 0 THEN x + Pow2(q) ELSE x - Pow2(q)

SwapBits(x, a, b) == IF BitOf(x, a) = BitOf(x, b) THEN x ELSE FlipBit(FlipBit(x, a), b)

Basis(nq) == 0..(Pow2(nq) - 1)

\* |0...0>
ZeroState(nq) == [x \in Basis(nq) |-> IF x = 0 THEN 1 ELSE 0]

\* the amplitude vector after a unitary gate
ApplyUnitary(gt, a) ==
    CASE gt.g = "h" ->
            [x \in DOMAIN a |-> IF BitOf(x, gt.q0) = 0
                                THEN a[x] + a[FlipBit(x, gt.q0)]
                                ELSE a[FlipBit(x, gt.q0)] - a[x]]
      [] gt.g = "x" -> [x \in DOMAIN a |-> a[FlipBit(x, gt.q0)]]
      [] gt.g = "z" -> [x \in DOMAIN a |-> IF BitOf(x, gt.q0) = 1 THEN 0 - a[x] ELSE a[x]]
      [] gt.g = "cx" ->
            [x \in DOMAIN a |-> IF BitOf(x, gt.q0) = 1 THEN a[FlipBit(x, gt.q1)] ELSE a[x]]
      [] gt.g = "swap" -> [x \in DOMAIN a |-> a[SwapBits(x, gt.q0, gt.q1)]]
      [] OTHER -> a      \* "i" and "barrier"

\* the outcomes of measuring qubit q that have non-zero probability
Outcomes(a, q) == {v \in {0, 1} : \E x \in DOMAIN a : BitOf(x, q) = v /\ a[x] # 0}

\* the amplitude vector after qubit q was measured as v
Collapse(a, q, v) == [x \in DOMAIN a |-> IF BitOf(x, q) = v THEN a[x] ELSE 0]

\* the key of get_counts(): classical bit nc-1 leftmost, bit 0 rightmost
CountsKey(cb, nc) == [i \in 1..nc |-> IF cb[nc - i] = 1 THEN "1" ELSE "0"]

\* backend.run(): the circuit starts on |0...0> with all classical bits 0
RunStart(nq, nc) ==
    /\ amp' = ZeroState(nq)
    /\ clbits' = [c \in 0..(nc - 1) |-> 0]
    /\ ip' = 1

\* the simulator executes the next gate of the circuit
RunGate ==
    /\ pc = "running"
    /\ ip <= Len(circuit)
    /\ LET gt == circuit[ip] IN
         IF gt.g = "measure"
         THEN \E v \in Outcomes(amp, gt.q0) :
                /\ amp' = Collapse(amp, gt.q0, v)
                /\ clbits' = [clbits EXCEPT ![gt.q1] = v]
         ELSE /\ amp' = ApplyUnitary(gt, amp)
              /\ UNCHANGED clbits
    /\ ip' = ip + 1
    /\ UNCHANGED <<self, pc, circuit, loc, ret>>

\* results.get_counts() of one shot: the key that this shot adds to the counts
RunDone ==
    /\ pc = "running"
    /\ ip = Len(circuit) + 1
    /\ pc' = "done"
    /\ ret' = Append(ret, CountsKey(clbits, Cardinality(DOMAIN clbits)))
    /\ UNCHANGED <<self, circuit, loc, amp, clbits, ip>>

\* ---------------------------------------------------- Bernstein-Vazirani
BVInit(num_qubits, bitstring) == [n |-> num_qubits, bitstring |-> bitstring]

\* the inner-product oracle reads s[qubit] for qubit in range(n)
BVIndexError(obj) == Len(obj.bitstring) < obj.n

BVAlgorithmNoReverse(obj) ==
    LET n == obj.n
        s == obj.bitstring
        hs == [q \in 1..n |-> G1("h", q - 1)]
    IN  <<G1("h", n), G1("z", n)>> \o hs \o <<Barrier>>
        \o [q \in 1..n |-> IF Idx(s, q - 1) = "0" THEN G1("i", q - 1) ELSE G2("cx", q - 1, n)]
        \o <<Barrier>> \o hs
        \o [q \in 1..n |-> G2("measure", q - 1, q - 1)]

BVAlgorithm(obj) ==
    LET n == obj.n
        s == ReverseStr(obj.bitstring)
        hs == [q \in 1..n |-> G1("h", q - 1)]
    IN  <<G1("h", n), G1("z", n)>> \o hs \o <<Barrier>>
        \o [q \in 1..n |-> IF Idx(s, q - 1) = "0" THEN G1("i", q - 1) ELSE G2("cx", q - 1, n)]
        \o <<Barrier>> \o hs
        \o [q \in 1..n |-> G2("measure", q - 1, q - 1)]

InitBV ==
    /\ self = NoAttrs
    /\ pc = "new"
    /\ circuit = <<>>
    /\ loc = NoAttrs
    /\ amp = ZeroState(0)
    /\ clbits = <<>>
    /\ ip = 0
    /\ ret = <<>>

BVConstruct ==
    /\ pc = "new"
    /\ \E n \in 0..MaxBits, s \in BitStringsUpTo(MaxBits) : self' = BVInit(n, s)
    /\ pc' = "constructed"
    /\ UNCHANGED <<circuit, loc, amp, clbits, ip, ret>>

BVCallAlgorithm ==
    /\ pc = "constructed"
    /\ IF BVIndexError(self)
       THEN pc' = "IndexError" /\ UNCHANGED circuit
       ELSE pc' = "built" /\ circuit' = BVAlgorithm(self)
    /\ UNCHANGED <<self, loc, amp, clbits, ip, ret>>

BVSimulation ==
    /\ pc = "built"
    /\ pc' = "running"
    /\ RunStart(self.n + 1, self.n)
    /\ UNCHANGED <<self, circuit, loc, ret>>

NextBV == BVConstruct \/ BVCallAlgorithm \/ BVSimulation \/ RunGate \/ RunDone

SpecBV == InitBV /\ [][NextBV]_vars

\* C3: for n >= 1 and a bitstring s over {0,1} of length n, the circuit of
\* BernsteinVazirani(n, s).algorithm() has a CNOT from qubit q onto the output
\* qubit n exactly when s[n-1-q] is '1', and every ideal run of it ends with
\* the one outcome s (classical bit n-1 leftmost).
C3_BVMeasuresSecret ==
    (pc \in {"built", "running", "done"} /\ self.n >= 1 /\ Len(self.bitstring) = self.n)
    => /\ \A q \in 0..(self.n - 1) :
            (\E k \in 1..Len(circuit) : circuit[k] = G2("cx", q, self.n))
            <=> Idx(self.bitstring, self.n - 1 - q) = "1"
       /\ pc = "done" => ret[Len(ret)] = self.bitstring

C3_Witness ==
    /\ pc = "done"
    /\ self.n >= 2
    /\ Len(self.bitstring) = self.n
    /\ self.bitstring # ReverseStr(self.bitstring)
    /\ ret[Len(ret)] = self.bitstring

\* ---------------------------------------------------------- Deutsch-Jozsa
\* values of the constructor's type argument that are tried
TypeArgs == {"constant", "balanced", "CONSTANT", "Balanced", "const", ""}

DJTypeAssertLoose(type) == type \in {"constant", "balanced", "CONSTANT", "Balanced"}

\* assert type == 'constant' or type == 'balanced'
DJTypeAssert(type) == type = "constant" \/ type = "balanced"

DJInit(type, num_bits) == [type |-> type, num_bits |-> num_bits]

\* binary digits of b, most significant first, "0" for b = 0
RECURSIVE ToBin(_)
ToBin(b) == IF b < 2 THEN <<IF b = 1 THEN "1" ELSE "0">>
            ELSE Append(ToBin(b \div 2), IF b % 2 = 1 THEN "1" ELSE "0")

\* format(b, '0' + str(width) + 'b'): zero-padded on the left to the width
FormatBin(b, width) ==
    LET d == ToBin(b)
    IN  IF Len(d) >= width THEN d ELSE [i \in 1..(width - Len(d)) |-> "0"] \o d

\* the branches of oracle() that an object takes
DJBranches(obj) == {t \in {"constant", "balanced"} : obj.type = t}

\* np.random.randint(1, 2**num_bits) raises when the interval is empty
DJRandintError(obj) == obj.type = "balanced" /\ Pow2(obj.num_bits) <= 1

\* the gates of the oracle's own circuit, for the random draws output and b
DJOracle(obj, output, b) ==
    LET n == obj.num_bits
        binary_string == FormatBin(b, n)
        xs == Flatten([q \in 1..Len(binary_string) |->
                         IF Idx(binary_string, q - 1) = "1" THEN <<G1("x", q - 1)>> ELSE <<>>])
    IN  (IF obj.type = "constant" /\ output = 1 THEN <<G1("x", n)>> ELSE <<>>)
        \o (IF obj.type = "balanced"
            THEN xs \o [q \in 1..n |-> G2("cx", q - 1, n)] \o xs
            ELSE <<>>)

\* circuit.append(gate, qargs): the gate's qubit i acts on qubit qargs[i]
AppendGate(sub, qargs) ==
    [k \in 1..Len(sub) |->
        [sub[k] EXCEPT !.q0 = Idx(qargs, sub[k].q0),
                       !.q1 = IF sub[k].q1 = -1 THEN -1 ELSE Idx(qargs, sub[k].q1)]]

DJAlgorithmNoMinus(obj, oracle) ==
    LET n == obj.num_bits
        hs == [q \in 1..n |-> G1("h", q - 1)]
    IN  hs \o <<G1("h", n)>> \o AppendGate(oracle, Range(n + 1)) \o hs
        \o [i \in 1..n |-> G2("measure", i - 1, i - 1)]

DJAlgorithm(obj, oracle) ==
    LET n == obj.num_bits
        hs == [q \in 1..n |-> G1("h", q - 1)]
    IN  hs \o <<G1("x", n), G1("h", n)>> \o AppendGate(oracle, Range(n + 1)) \o hs
        \o [i \in 1..n |-> G2("measure", i - 1, i - 1)]

InitDJ ==
    /\ self = NoAttrs
    /\ pc = "new"
    /\ circuit = <<>>
    /\ loc = NoAttrs
    /\ amp = ZeroState(0)
    /\ clbits = <<>>
    /\ ip = 0
    /\ ret = <<>>

\* DeutschJozsa(type, num_bits); loc keeps the arguments of the call
DJConstruct ==
    /\ pc = "new"
    /\ \E type \in TypeArgs, num_bits \in 0..MaxBits :
         /\ loc' = [type |-> type, num_bits |-> num_bits]
         /\ IF DJTypeAssert(type)
            THEN pc' = "constructed" /\ self' = DJInit(type, num_bits)
            ELSE pc' = "AssertionError" /\ UNCHANGED self
    /\ UNCHANGED <<circuit, amp, clbits, ip, ret>>

\* oracle_gate = self.oracle(); loc keeps the draws (0 for a draw that the
\* branch taken does not make), the branches taken and the gate
DJCallOracle ==
    /\ pc = "constructed"
    /\ IF DJRandintError(self)
       THEN pc' = "ValueError" /\ UNCHANGED loc
       ELSE /\ pc' = "oracle"
            /\ \E output \in (IF self.type = "constant" THEN 0..1 ELSE {0}),
                  b \in (IF self.type = "balanced" THEN 1..(Pow2(self.num_bits) - 1) ELSE {0}) :
                 loc' = [output |-> output, b |-> b, branches |-> DJBranches(self),
                         oracle |-> DJOracle(self, output, b)]
    /\ UNCHANGED <<self, circuit, amp, clbits, ip, ret>>

DJCallAlgorithm ==
    /\ pc = "oracle"
    /\ pc' = "built"
    /\ circuit' = DJAlgorithm(self, loc.oracle)
    /\ UNCHANGED <<self, loc, amp, clbits, ip, ret>>

DJSimulation ==
    /\ pc = "built"
    /\ pc' = "running"
    /\ RunStart(self.num_bits + 1, self.num_bits)
    /\ UNCHANGED <<self, circuit, loc, ret>>

NextDJ == DJConstruct \/ DJCallOracle \/ DJCallAlgorithm \/ DJSimulation \/ RunGate \/ RunDone

SpecDJ == InitDJ /\ [][NextDJ]_vars

Zeros(n) == [i \in 1..n |-> "0"]

Ones(n) == [i \in 1..n |-> "1"]

\* C1: the constructor creates an object exactly for type 'constant' or
\* 'balanced'; for any other type it fails with an assertion error and sets no
\* attribute, so every object has one of the two types and oracle() takes
\* exactly one of its two branches.
C1_DJTypeChecked ==
    /\ pc = "AssertionError" => DOMAIN self = {} /\ loc.type \notin {"constant", "balanced"}
    /\ pc = "constructed" => loc.type \in {"constant", "balanced"}
    /\ DOMAIN self # {} => self.type \in {"constant", "balanced"}
    /\ pc \in {"oracle", "built", "running", "done"} => Cardinality(loc.branches) = 1

C1_Witness ==
    /\ pc = "AssertionError"
    /\ loc.type = "CONSTANT"
    /\ DOMAIN self = {}

\* C4: for num_bits >= 1 and every random draw of oracle(), an ideal run of
\* algorithm(oracle()) gives the all-zeros string when type is 'constant' and
\* the all-ones string, hence never all zeros, when type is 'balanced'.
C4_DJDistinguishes ==
    (pc = "done" /\ self.num_bits >= 1)
    => /\ self.type = "constant" => ret[Len(ret)] = Zeros(self.num_bits)
       /\ self.type = "balanced" => /\ ret[Len(ret)] = Ones(self.num_bits)
                                    /\ ret[Len(ret)] # Zeros(self.num_bits)

C4_Witness ==
    /\ pc = "done"
    /\ self.type = "balanced"
    /\ self.num_bits >= 2
    /\ loc.b = 2
    /\ ret[Len(ret)] = Ones(self.num_bits)

\* ------------------------------------------------- the other constructors
\* QuantumFourierTransform(num_qubits): self.circuit is one circuit object,
\* created empty here; its gate sequence is the variable circuit
QFTInit(num_qubits) == [n |-> num_qubits, circuit |-> "self.circuit"]

\* QuantumPhaseEstimation(n_counting_qubits, angle) for angle = p/q:
\* self.angle = 2 * math.pi * angle, kept as num/den in units of pi
QPEInit(n_counting_qubits, p, q) ==
    [n_counting_qubits |-> n_counting_qubits, angle |-> [num |-> 2 * p, den |-> q]]

SimonInit(bitstring) == [b |-> bitstring, n |-> Len(bitstring)]

\* circuit.inverse(): the gates in reverse order, each one inverted (h, x, z,
\* cx and swap are their own inverses, a controlled phase negates its angle)
InverseCircuit(c) ==
    [k \in 1..Len(c) |-> [c[Len(c) + 1 - k] EXCEPT !.num = 0 - c[Len(c) + 1 - k].num]]

\* ------------------------------------------------- run_quantum_hardware
Classes == {"BernsteinVazirani", "DeutschJozsa", "QuantumFourierTransform",
            "QuantumPhaseEstimation", "SimonProblem"}

\* an object of the class for n qubits
HWNew(cls, n) ==
    CASE cls = "BernsteinVazirani" -> BVInit(n, Zeros(n))
      [] cls = "DeutschJozsa" -> DJInit("constant", n)
      [] cls = "QuantumFourierTransform" -> QFTInit(n)
      [] cls = "QuantumPhaseEstimation" -> QPEInit(n, 1, 4)
      [] cls = "SimonProblem" -> SimonInit(Ones(n))

\* the attribute of self that the class's backend filter reads
HWFilterAttr(cls) ==
    CASE cls = "BernsteinVazirani" -> "num_bits"
      [] cls = "DeutschJozsa" -> "num_bits"
      [] cls = "QuantumFourierTransform" -> "n"
      [] cls = "QuantumPhaseEstimation" -> "n"
      [] cls = "SimonProblem" -> "n"

\* the number of qubits the class's backend filter asks for
HWQubitsAsked(cls, obj) ==
    IF cls \in {"BernsteinVazirani", "DeutschJozsa"} THEN obj[HWFilterAttr(cls)] + 1
    ELSE obj[HWFilterAttr(cls)]

\* the backends a provider may list: a device, a simulator, a device that is down
Backends == {[name |-> "device", n_qubits |-> 5, simulator |-> FALSE, operational |-> TRUE],
             [name |-> "simulator", n_qubits |-> 32, simulator |-> TRUE, operational |-> TRUE],
             [name |-> "down", n_qubits |-> 7, simulator |-> FALSE, operational |-> FALSE]}

\* lambda x: x.configuration().n_qubits >= ... and not simulator and operational
HWFilter(cls, obj, x) ==
    x.n_qubits >= HWQubitsAsked(cls, obj) /\ ~x.simulator /\ x.operational = TRUE

\* the calls into the library, in the order the method makes them
HWPlan == <<"load_account", "get_provider", "backends", "least_busy", "transpile",
            "assemble", "run", "job_monitor", "result", "get_counts">>

InitHW ==
    /\ self = NoAttrs
    /\ pc = "new"
    /\ circuit = <<>>
    /\ loc = NoAttrs
    /\ amp = ZeroState(0)
    /\ clbits = <<>>
    /\ ip = 0
    /\ ret = <<>>

\* an object of one of the classes and a circuit to pass to the method
HWConstruct ==
    /\ pc = "new"
    /\ \E cls \in Classes, n \in 0..MaxBits, k \in 0..1 :
         /\ self' = HWNew(cls, n)
         /\ circuit' = [q \in 1..(k * n) |-> G1("h", q - 1)]
         /\ loc' = [cls |-> cls, k |-> 0, steps |-> <<>>, backends |-> {}]
    /\ pc' = "constructed"
    /\ UNCHANGED <<amp, clbits, ip, ret>>

\* run_quantum_hardware(circuit) is entered; QuantumFourierTransform first
\* appends the inverse of the circuit to the circuit it was given
HWCall ==
    /\ pc = "constructed"
    /\ pc' = "hardware"
    /\ IF loc.cls = "QuantumFourierTransform"
       THEN circuit' = circuit \o AppendGate(InverseCircuit(circuit), Range(self.n))
       ELSE UNCHANGED circuit
    /\ loc' = [loc EXCEPT !.k = 1]
    /\ UNCHANGED <<self, amp, clbits, ip, ret>>

\* a call into the library that succeeds
HWLibraryCall ==
    /\ pc = "hardware"
    /\ loc.k <= Len(HWPlan)
    /\ HWPlan[loc.k] # "backends"
    /\ HWPlan[loc.k] = "least_busy" => loc.backends # {}
    /\ loc' = [loc EXCEPT !.k = loc.k + 1, !.steps = Append(loc.steps, HWPlan[loc.k])]
    /\ UNCHANGED <<self, pc, circuit, amp, clbits, ip, ret>>

\* provider.backends(filters = lambda x: ...): the provider lists at least one
\* backend and calls the filter on each; the filter reads an attribute of self
HWBackends ==
    /\ pc = "hardware"
    /\ loc.k <= Len(HWPlan)
    /\ HWPlan[loc.k] = "backends"
    /\ \E listed \in SUBSET Backends \ {{}} :
         IF HWFilterAttr(loc.cls) \notin DOMAIN self
         THEN pc' = "AttributeError" /\ UNCHANGED loc
         ELSE /\ loc' = [loc EXCEPT !.k = loc.k + 1,
                                    !.steps = Append(loc.steps, "backends"),
                                    !.backends = {x \in listed : HWFilter(loc.cls, self, x)}]
              /\ UNCHANGED pc
    /\ UNCHANGED <<self, circuit, amp, clbits, ip, ret>>

\* least_busy of no backend: the library fails
HWNoBackend ==
    /\ pc = "hardware"
    /\ loc.k <= Len(HWPlan)
    /\ HWPlan[loc.k] = "least_busy"
    /\ loc.backends = {}
    /\ pc' = "LibraryError"
    /\ UNCHANGED <<self, circuit, loc, amp, clbits, ip, ret>>

\* return answer
HWReturn ==
    /\ pc = "hardware"
    /\ loc.k = Len(HWPlan) + 1
    /\ pc' = "returned"
    /\ ret' = Append(ret, "counts")
    /\ UNCHANGED <<self, circuit, loc, amp, clbits, ip>>

NextHW == HWConstruct \/ HWCall \/ HWLibraryCall \/ HWBackends \/ HWNoBackend \/ HWReturn

SpecHW == InitHW /\ [][NextHW]_vars

\* C2: in each of the five classes, when every call into the library succeeds,
\* run_quantum_hardware goes through load account, select backend, transpile,
\* assemble, run, monitor, read counts and returns the counts: no failure
\* originates in the repository's own code, the backend filter only reads
\* attributes that the constructor has set.
C2_HWNoOwnFailure ==
    /\ pc # "AttributeError"
    /\ pc = "returned" => loc.steps = HWPlan /\ ret = <<"counts">>

\* ---------------------------------------------------------- Simon's problem
\* b.rfind('1'): the index of the last '1', -1 when there is none
RFind1(b) ==
    IF \E i \in 1..Len(b) : b[i] = "1"
    THEN (CHOOSE i \in 1..Len(b) : b[i] = "1" /\ \A m \in (i + 1)..Len(b) : b[m] # "1") - 1
    ELSE -1

\* list.index(v): the index of the first element equal to v
PyIndex(list, v) ==
    (CHOOSE k \in 1..Len(list) : list[k] = v /\ \A m \in 1..(k - 1) : list[m] # v) - 1

\* the permutations of 0..n-1, as lists
PermutationLists(n) == {p \in [1..n -> 0..(n - 1)] : \A a, c \in 1..n : p[a] = p[c] => a = c}

\* int(ch) of a character of a bitstring
IntOf(ch) == IF ch = "1" THEN 1 ELSE 0

RECURSIVE SumTo(_, _)
SumTo(f, k) == IF k = 0 THEN 0 ELSE f[k] + SumTo(f, k - 1)

\* bdotz(b, z): the sum over i in range(len(b)) of int(b[i]) * int(z[i]), mod 2
Bdotz(b, z) == SumTo([i \in 1..Len(b) |-> IntOf(Idx(b, i - 1)) * IntOf(Idx(z, i - 1))], Len(b)) % 2

\* oracle(), steps 1 and 2: copy the first register, then XOR with b under qubit j
SimonOracleCopyXor(obj) ==
    LET n == obj.n
        j == RFind1(obj.b)
    IN  [i \in 1..n |-> G2("cx", i - 1, n + i - 1)]
        \o Flatten([idx \in 1..n |->
                      IF Idx(obj.b, idx - 1) = "1" /\ j # -1
                      THEN <<G2("cx", j, n + idx - 1)>> ELSE <<>>])

SimonSwapIndexInverse(permutation, initial_position, i) ==
    PyIndex(initial_position, Idx(permutation, i))

\* k = permutation.index(initial_position[i])
SimonSwapIndex(permutation, initial_position, i) ==
    PyIndex(permutation, Idx(initial_position, i))

\* initial_position[i], initial_position[k] = initial_position[k], initial_position[i]
SwapItems(list, i, k) ==
    [list EXCEPT ![i + 1] = Idx(list, k), ![k + 1] = Idx(list, i)]

\* oracle(), the random flips, then the rest of algorithm()
SimonFlipsAndRest(obj, flips) ==
    LET n == obj.n
    IN  Flatten([i \in 1..n |-> IF flips[i] THEN <<G1("x", n + i - 1)>> ELSE <<>>])
        \o <<Barrier>>
        \o [q \in 1..n |-> G1("h", q - 1)]
        \o [q \in 1..n |-> G2("measure", q - 1, q - 1)]

InitSimon ==
    /\ self = NoAttrs
    /\ pc = "new"
    /\ circuit = <<>>
    /\ loc = NoAttrs
    /\ amp = ZeroState(0)
    /\ clbits = <<>>
    /\ ip = 0
    /\ ret = <<>>

\* SimonProblem(bitstring) for a bitstring of at most maxlen characters
SimonNew(maxlen) ==
    /\ pc = "new"
    /\ \E b \in BitStringsUpTo(maxlen) : self' = SimonInit(b)
    /\ pc' = "constructed"
    /\ UNCHANGED <<circuit, loc, amp, clbits, ip, ret>>

SimonConstruct == SimonNew(MaxSimonLen)

SimonConstructOracle == SimonNew(MaxPermLen)

\* algorithm() up to the start of the permutation loop of oracle(): Hadamards,
\* barrier, steps 1 and 2 of the oracle, the draw of the permutation
SimonCallAlgorithm ==
    /\ pc = "constructed"
    /\ pc' = "permute"
    /\ circuit' = [q \in 1..self.n |-> G1("h", q - 1)] \o <<Barrier>> \o SimonOracleCopyXor(self)
    /\ \E permutation \in PermutationLists(self.n) :
         loc' = [permutation |-> permutation, initial_position |-> Range(self.n), i |-> 0]
    /\ UNCHANGED <<self, amp, clbits, ip, ret>>

\* one iteration of the while loop, the if branch
SimonPermuteSwap ==
    /\ pc = "permute"
    /\ loc.i < self.n
    /\ Idx(loc.initial_position, loc.i) # Idx(loc.permutation, loc.i)
    /\ LET k == SimonSwapIndex(loc.permutation, loc.initial_position, loc.i) IN
         /\ circuit' = Append(circuit, G2("swap", self.n + loc.i, self.n + k))
         /\ loc' = [loc EXCEPT !.initial_position = SwapItems(loc.initial_position, loc.i, k)]
    /\ UNCHANGED <<self, pc, amp, clbits, ip, ret>>

\* one iteration of the while loop, the else branch
SimonPermuteAdvance ==
    /\ pc = "permute"
    /\ loc.i < self.n
    /\ Idx(loc.initial_position, loc.i) = Idx(loc.permutation, loc.i)
    /\ loc' = [loc EXCEPT !.i = loc.i + 1]
    /\ UNCHANGED <<self, pc, circuit, amp, clbits, ip, ret>>

\* the loop is left; the random flips, return to algorithm(), which finishes
SimonFinish ==
    /\ pc = "permute"
    /\ ~(loc.i < self.n)
    /\ pc' = "built"
    /\ \E flips \in [1..self.n -> BOOLEAN] : circuit' = circuit \o SimonFlipsAndRest(self, flips)
    /\ UNCHANGED <<self, loc, amp, clbits, ip, ret>>

SimonSimulation ==
    /\ pc = "built"
    /\ pc' = "running"
    /\ RunStart(self.n * 2, self.n)
    /\ UNCHANGED <<self, circuit, loc, ret>>

NextSimon ==
    \/ SimonConstruct \/ SimonCallAlgorithm \/ SimonPermuteSwap \/ SimonPermuteAdvance
    \/ SimonFinish \/ SimonSimulation \/ RunGate \/ RunDone

SpecSimon == InitSimon /\ [][NextSimon]_vars

NextSimonOracle ==
    \/ SimonConstructOracle \/ SimonCallAlgorithm \/ SimonPermuteSwap \/ SimonPermuteAdvance
    \/ SimonFinish

\* a call of algorithm() runs on: nothing else is scheduled
SpecSimonOracle == InitSimon /\ [][NextSimonOracle]_vars /\ WF_vars(NextSimonOracle)

\* C5: for every bitstring b, permutation and flip pattern, every outcome z of
\* an ideal run of SimonProblem(b).algorithm(), as the library reports it,
\* satisfies bdotz(b, z) = 0: every line printed by simulation() reads
\* 'b.z = 0 (mod 2)'.
C5_SimonDotZero == pc = "done" => Bdotz(self.b, ret[Len(ret)]) = 0

\* the positions of initial_position that already hold their final element
InPlace(l) ==
    {m \in 0..(Len(l.permutation) - 1) : Idx(l.initial_position, m) = Idx(l.permutation, m)}

SwapGates(c) == {k \in 1..Len(c) : c[k].g = "swap"}

C10_Inv ==
    pc \in {"permute", "built"}
    => /\ Cardinality(SwapGates(circuit)) <= (IF self.n = 0 THEN 0 ELSE self.n - 1)
       /\ \A k \in SwapGates(circuit) :
            /\ circuit[k].q0 \in self.n..(2 * self.n - 1)
            /\ circuit[k].q1 \in self.n..(2 * self.n - 1)
       /\ \A m \in 0..(loc.i - 1) : m \in InPlace(loc)
       /\ pc = "built" => loc.initial_position = loc.permutation

C10_Step ==
    (pc = "permute" /\ pc' = "permute")
    => /\ \A m \in 0..(loc.i - 1) : Idx(loc'.initial_position, m) = Idx(loc.initial_position, m)
       /\ \/ /\ loc'.i = loc.i + 1
             /\ loc'.initial_position = loc.initial_position
             /\ circuit' = circuit
          \/ /\ loc'.i = loc.i
             /\ Len(circuit') = Len(circuit) + 1
             /\ circuit'[Len(circuit')].g = "swap"
             /\ InPlace(loc) \subseteq InPlace(loc')
             /\ \E k \in (loc.i + 1)..(self.n - 1) : k \notin InPlace(loc) /\ k \in InPlace(loc')

\* C10: the permutation loop of oracle() terminates for every n >= 0 and every
\* permutation: each iteration advances i or swaps so that one more position
\* k > i holds its final element, positions below i are not touched again, at
\* most n-1 swaps are emitted, all on qubits n..2n-1, and on exit
\* initial_position equals permutation.
C10_PermutationLoop ==
    /\ []C10_Inv
    /\ [][C10_Step]_vars
    /\ (pc = "permute") ~> (pc = "built")

C10_Witness ==
    /\ pc = "built"
    /\ self.n >= 3
    /\ Cardinality(SwapGates(circuit)) = self.n - 1
    /\ loc.permutation # Range(self.n)
    /\ loc.initial_position = loc.permutation

\* ------------------------------------------------ Quantum Fourier Transform
RotationsFrameSwapped(n) ==
    <<G1("h", n - 1)>> \o [q \in 1..(n - 1) |-> CP(1, Pow2((n - 1) - (q - 1)), n - 1, q - 1)]

\* what one call rotations(circuit, n), n > 0, appends before it recurses:
\* n -= 1; circuit.h(n); circuit.cp(pi/2**(n-qubit), qubit, n) for qubit in range(n)
RotationsFrame(n) ==
    <<G1("h", n - 1)>> \o [q \in 1..(n - 1) |-> CP(1, Pow2((n - 1) - (q - 1)), q - 1, n - 1)]

\* swap_registers(circuit, n): circuit.swap(qubit, n-qubit-1) for qubit in range(n//2)
SwapRegisters(n) == [q \in 1..(n \div 2) |-> G2("swap", q - 1, n - (q - 1) - 1)]

QftInversePositive(c, n) ==
    c \o [q \in 1..(n \div 2) |-> G2("swap", q - 1, n - (q - 1) - 1)]
      \o Flatten([j \in 1..n |->
                    [m \in 1..(j - 1) |-> CP(1, Pow2((j - 1) - (m - 1)), m - 1, j - 1)]
                    \o <<G1("h", j - 1)>>])

\* QuantumPhaseEstimation.qft_inverse(circuit, n)
QftInverse(c, n) ==
    c \o [q \in 1..(n \div 2) |-> G2("swap", q - 1, n - (q - 1) - 1)]
      \o Flatten([j \in 1..n |->
                    [m \in 1..(j - 1) |-> CP(-1, Pow2((j - 1) - (m - 1)), m - 1, j - 1)]
                    \o <<G1("h", j - 1)>>])

InitQFT ==
    /\ self = NoAttrs
    /\ pc = "new"
    /\ circuit = <<>>
    /\ loc = NoAttrs
    /\ amp = ZeroState(0)
    /\ clbits = <<>>
    /\ ip = 0
    /\ ret = <<>>

\* QuantumFourierTransform(num_qubits).  loc: the stack of rotations() frames
\* (the n each was called with), whether the top frame has yet run its body,
\* the recursive calls made by the running algorithm() call, the simulation()
\* calls made, and the result of a qft_inverse call for the same n.
QFTConstruct ==
    /\ pc = "new"
    /\ \E n \in 0..MaxQubits : self' = QFTInit(n)
    /\ circuit' = <<>>
    /\ loc' = [stack |-> <<>>, fresh |-> FALSE, calls |-> 0, sims |-> 0,
               inverse |-> <<>>, inverted |-> FALSE]
    /\ pc' = "idle"
    /\ UNCHANGED <<amp, clbits, ip, ret>>

\* algorithm() is entered and calls self.rotations(self.circuit, self.n)
QFTCallAlgorithm ==
    /\ pc = "idle"
    /\ Len(ret) < MaxCalls
    /\ pc' = "rotations"
    /\ loc' = [loc EXCEPT !.stack = <<self.n>>, !.fresh = TRUE, !.calls = 0]
    /\ UNCHANGED <<self, circuit, amp, clbits, ip, ret>>

\* rotations(circuit, n) with n > 0: the body, then the recursive call
QFTRotationsBody ==
    /\ pc = "rotations"
    /\ loc.fresh
    /\ Head(loc.stack) # 0
    /\ circuit' = circuit \o RotationsFrame(Head(loc.stack))
    /\ loc' = [loc EXCEPT !.stack = <<Head(loc.stack) - 1>> \o loc.stack,
                          !.calls = loc.calls + 1]
    /\ UNCHANGED <<self, pc, amp, clbits, ip, ret>>

\* rotations(circuit, 0): return circuit
QFTRotationsBase ==
    /\ pc = "rotations"
    /\ loc.fresh
    /\ Head(loc.stack) = 0
    /\ loc' = [loc EXCEPT !.stack = Tail(loc.stack), !.fresh = FALSE]
    /\ pc' = IF Tail(loc.stack) = <<>> THEN "swap_registers" ELSE "rotations"
    /\ UNCHANGED <<self, circuit, amp, clbits, ip, ret>>

\* the recursive call has returned: return circuit
QFTRotationsReturn ==
    /\ pc = "rotations"
    /\ ~loc.fresh
    /\ loc' = [loc EXCEPT !.stack = Tail(loc.stack)]
    /\ pc' = IF Tail(loc.stack) = <<>> THEN "swap_registers" ELSE "rotations"
    /\ UNCHANGED <<self, circuit, amp, clbits, ip, ret>>

\* swap_registers(circuit, self.n), then algorithm() returns the circuit: the
\* caller receives self.circuit itself, with the gates it holds now
QFTSwapAndReturn ==
    /\ pc = "swap_registers"
    /\ circuit' = circuit \o SwapRegisters(self.n)
    /\ ret' = Append(ret, circuit')
    /\ pc' = "idle"
    /\ UNCHANGED <<self, loc, amp, clbits, ip>>

\* simulation(circuit) on the circuit that algorithm() returned: the statevector
\* simulator reads the circuit
QFTSimulation ==
    /\ pc = "idle"
    /\ Len(ret) >= 1
    /\ loc.sims < Len(ret)
    /\ loc' = [loc EXCEPT !.sims = loc.sims + 1]
    /\ UNCHANGED <<self, pc, circuit, amp, clbits, ip, ret>>

\* QuantumPhaseEstimation.qft_inverse on a new circuit, for the same n
QPEQftInverse ==
    /\ pc = "idle"
    /\ ~loc.inverted
    /\ loc' = [loc EXCEPT !.inverse = QftInverse(<<>>, self.n), !.inverted = TRUE]
    /\ UNCHANGED <<self, pc, circuit, amp, clbits, ip, ret>>

NextQFT ==
    \/ QFTConstruct \/ QFTCallAlgorithm \/ QFTRotationsBody \/ QFTRotationsBase
    \/ QFTRotationsReturn \/ QFTSwapAndReturn \/ QFTSimulation \/ QPEQftInverse

\* a call that was made runs on to its return
SpecQFT == InitQFT /\ [][NextQFT]_vars /\ WF_vars(NextQFT)

CountGates(c, g) == Cardinality({k \in 1..Len(c) : c[k].g = g})

\* C6: every call of algorithm() returns the same gate sequence as the first
\* call: n Hadamards, n(n-1)/2 controlled-phase gates and floor(n/2) swaps; no
\* gates carry over from earlier calls.
C6_QFTSameOnEveryCall ==
    \A k \in 1..Len(ret) :
        /\ ret[k] = ret[1]
        /\ CountGates(ret[k], "h") = self.n
        /\ CountGates(ret[k], "cp") = (self.n * (self.n - 1)) \div 2
        /\ CountGates(ret[k], "swap") = self.n \div 2

\* the sequence C7 states: for t = n-1 down to 0, a Hadamard on t, then for
\* c = 0..t-1 a controlled phase of angle pi/2^(t-c) with control c and target t
RotationsStated(n) ==
    Flatten([d \in 1..n |->
               <<G1("h", n - d)>> \o [c \in 1..(n - d) |-> CP(1, Pow2((n - d) - (c - 1)), c - 1, n - d)]])

C7_Inv ==
    /\ pc = "rotations" => loc.calls <= self.n /\ Len(loc.stack) <= self.n + 1
    /\ pc = "swap_registers" => loc.calls = self.n
    /\ (pc = "swap_registers" /\ Len(ret) = 0)
       => /\ circuit = RotationsStated(self.n)
          /\ \A a, b \in 1..Len(circuit) :
               (a < b /\ circuit[a].g = "h" /\ circuit[b].g = "h") => circuit[a].q0 > circuit[b].q0
          /\ \A k \in 1..Len(circuit) :
               circuit[k].g = "cp"
               => /\ \E a \in 1..(k - 1) : circuit[a] = G1("h", circuit[k].q1)
                  /\ \A a \in 1..(k - 1) : circuit[a].g = "h" => circuit[a].q0 >= circuit[k].q1
                  /\ \A b \in (k + 1)..Len(circuit) :
                       circuit[b].g = "h" => circuit[b].q0 < circuit[k].q1
          /\ \A c, t \in 0..(self.n - 1) :
               c < t => Cardinality({k \in 1..Len(circuit) :
                                       /\ circuit[k].g = "cp"
                                       /\ {circuit[k].q0, circuit[k].q1} = {c, t}}) = 1
          /\ \A k \in 1..Len(circuit) : circuit[k].q0 < self.n /\ circuit[k].q1 < self.n

\* C7: rotations(circuit, n) on an empty circuit terminates after exactly n
\* nested recursive calls and appends, for t = n-1 down to 0, a Hadamard on t
\* and then cp(pi/2^(t-c), c, t) for c = 0..t-1: Hadamards in descending order,
\* the controlled phases onto t between the Hadamards on t and t-1, one
\* controlled phase for each pair of qubits, no gate on a qubit >= n.
C7_Rotations ==
    /\ []C7_Inv
    /\ (pc = "rotations") ~> (pc = "swap_registers")

C7_Witness ==
    /\ pc = "swap_registers"
    /\ Len(ret) = 0
    /\ self.n >= 3
    /\ loc.calls = self.n
    /\ circuit = RotationsStated(self.n)

\* two neighbouring gates that a reordering may exchange and that stand in
\* descending order: controlled phases onto the same target and, when swapsToo,
\* swap gates
OutOfOrder(a, b, swapsToo) ==
    \/ a.g = "cp" /\ b.g = "cp" /\ a.q1 = b.q1 /\ a.q0 > b.q0
    \/ swapsToo /\ a.g = "swap" /\ b.g = "swap" /\ a.q0 > b.q0

\* the one sequence reachable by such exchanges in which no pair is out of order
RECURSIVE Reordered(_, _)
Reordered(c, swapsToo) ==
    IF \E k \in 1..(Len(c) - 1) : OutOfOrder(c[k], c[k + 1], swapsToo)
    THEN LET k == CHOOSE k \in 1..(Len(c) - 1) : OutOfOrder(c[k], c[k + 1], swapsToo)
         IN  Reordered([c EXCEPT ![k] = c[k + 1], ![k + 1] = c[k]], swapsToo)
    ELSE c

\* the sequence C8 states: the swaps (i, n-1-i), then for j = 0..n-1 the gates
\* cp(-pi/2^(j-m), m, j) for m < j and a Hadamard on j
InverseStated(n) ==
    [i \in 1..(n \div 2) |-> G2("swap", i - 1, n - 1 - (i - 1))]
    \o Flatten([j \in 1..n |->
                  [m \in 1..(j - 1) |-> CP(-1, Pow2(j - m), m - 1, j - 1)] \o <<G1("h", j - 1)>>])

\* C8 as stated: qft_inverse(circuit, n) emits the reverse of the sequence of
\* QuantumFourierTransform.algorithm() with the angles negated, up to reordering
\* of controlled phases that share a target: the swaps (i, n-1-i), then for
\* j = 0..n-1 cp(-pi/2^(j-m), m, j) for m < j and a Hadamard on j.
C8_InverseUpToCpOrder ==
    (pc # "new" /\ loc.inverted /\ Len(ret) >= 1)
    => /\ loc.inverse = InverseStated(self.n)
       /\ Reordered(loc.inverse, FALSE) = Reordered(InverseCircuit(ret[1]), FALSE)

\* C8 as amended: the same, up to reordering of controlled phases that share a
\* target and of the swap gates.
C8_InverseUpToCpAndSwapOrder ==
    (pc # "new" /\ loc.inverted /\ Len(ret) >= 1)
    => /\ loc.inverse = InverseStated(self.n)
       /\ Reordered(loc.inverse, TRUE) = Reordered(InverseCircuit(ret[1]), TRUE)

C8_Witness ==
    /\ pc # "new"
    /\ loc.inverted
    /\ Len(ret) >= 1
    /\ self.n = 4
    /\ loc.inverse # InverseCircuit(ret[1])
    /\ Reordered(loc.inverse, TRUE) = Reordered(InverseCircuit(ret[1]), TRUE)

\* -------------------------------------------------- Quantum Phase Estimation
\* the angle arguments p/q of the constructor that are tried
AngleArgs == {<<1, 8>>, <<1, 3>>}

QPENextRepetitionsSame(repetitions) == repetitions

\* repetitions *= 2
QPENextRepetitions(repetitions) == repetitions * 2

\* algorithm() after the controlled-U loops: barrier, inverse QFT, barrier, measure
QPERest(obj) ==
    QftInverse(<<Barrier>>, obj.n_counting_qubits)
    \o <<Barrier>>
    \o [q \in 1..obj.n_counting_qubits |-> G2("measure", q - 1, q - 1)]

InitQPE ==
    /\ self = NoAttrs
    /\ pc = "new"
    /\ circuit = <<>>
    /\ loc = NoAttrs
    /\ amp = ZeroState(0)
    /\ clbits = <<>>
    /\ ip = 0
    /\ ret = <<>>

\* QuantumPhaseEstimation(n_counting_qubits, angle); loc keeps the angle argument
QPEConstruct ==
    /\ pc = "new"
    /\ \E n \in 0..MaxCounting, a \in AngleArgs :
         /\ self' = QPEInit(n, a[1], a[2])
         /\ loc' = [angle |-> a]
    /\ pc' = "constructed"
    /\ UNCHANGED <<circuit, amp, clbits, ip, ret>>

\* algorithm(eigenstate_x, repetitions) up to the controlled-U loops; loc keeps
\* the arguments and the loop variables (done: iterations of the inner loop made)
QPECallAlgorithm ==
    /\ pc = "constructed"
    /\ \E eigenstate_x \in BOOLEAN, r \in 0..MaxReps :
         /\ circuit' = [q \in 1..self.n_counting_qubits |-> G1("h", q - 1)]
                       \o (IF eigenstate_x THEN <<G1("x", self.n_counting_qubits)>> ELSE <<>>)
         /\ loc' = [angle |-> loc.angle, eigenstate_x |-> eigenstate_x, r |-> r,
                    repetitions |-> r, counting_qubit |-> 0, done |-> 0]
    /\ pc' = "controlled_u"
    /\ UNCHANGED <<self, amp, clbits, ip, ret>>

\* one iteration of the inner loop: circuit.cp(self.angle, counting_qubit, n)
QPEControlledU ==
    /\ pc = "controlled_u"
    /\ loc.counting_qubit < self.n_counting_qubits
    /\ loc.done < loc.repetitions
    /\ circuit' = Append(circuit, CP(self.angle.num, self.angle.den,
                                     loc.counting_qubit, self.n_counting_qubits))
    /\ loc' = [loc EXCEPT !.done = loc.done + 1]
    /\ UNCHANGED <<self, pc, amp, clbits, ip, ret>>

\* the inner loop is over: repetitions *= 2, next counting qubit
QPENextQubit ==
    /\ pc = "controlled_u"
    /\ loc.counting_qubit < self.n_counting_qubits
    /\ loc.done = loc.repetitions
    /\ loc' = [loc EXCEPT !.repetitions = QPENextRepetitions(loc.repetitions),
                          !.counting_qubit = loc.counting_qubit + 1,
                          !.done = 0]
    /\ UNCHANGED <<self, pc, circuit, amp, clbits, ip, ret>>

\* the outer loop is over: the rest of algorithm(), which returns the circuit
QPEFinish ==
    /\ pc = "controlled_u"
    /\ loc.counting_qubit = self.n_counting_qubits
    /\ circuit' = circuit \o QPERest(self)
    /\ ret' = Append(ret, circuit')
    /\ pc' = "built"
    /\ UNCHANGED <<self, loc, amp, clbits, ip>>

NextQPE == QPEConstruct \/ QPECallAlgorithm \/ QPEControlledU \/ QPENextQubit \/ QPEFinish

SpecQPE == InitQPE /\ [][NextQPE]_vars

\* the controlled-U gates of a circuit: controlled phases onto qubit n
ControlledUs(c, n) == {k \in 1..Len(c) : c[k].g = "cp" /\ c[k].q1 = n}

\* C9: in algorithm(repetitions = r), r >= 0, counting qubit k controls exactly
\* r * 2^k controlled-phase gates, all onto qubit n with angle 2*pi*angle, those
\* of qubit k before those of qubit k+1, r * (2^n - 1) in all; they come after
\* the Hadamards and the optional X and before the inverse QFT and the
\* measurements of qubit i into classical bit i.
C9_QPEControlledUCount ==
    pc = "built"
    => LET n == self.n_counting_qubits
           cu == ControlledUs(circuit, n)
           first == n + (IF loc.eigenstate_x THEN 1 ELSE 0) + 1
           last == first + loc.r * (Pow2(n) - 1) - 1
       IN  /\ \A k \in 0..(n - 1) :
                Cardinality({i \in cu : circuit[i].q0 = k}) = loc.r * Pow2(k)
           /\ \A i \in cu : /\ circuit[i].num = 2 * loc.angle[1]
                            /\ circuit[i].den = loc.angle[2]
           /\ \A i, j \in cu : i < j => circuit[i].q0 <= circuit[j].q0
           /\ Cardinality(cu) = loc.r * (Pow2(n) - 1)
           /\ cu = first..last
           /\ \A q \in 1..n : circuit[q] = G1("h", q - 1)
           /\ loc.eigenstate_x => circuit[n + 1] = G1("x", n)
           /\ SubSeq(circuit, last + 1, Len(circuit))
                = <<Barrier>> \o InverseStated(n) \o <<Barrier>>
                  \o [i \in 1..n |-> G2("measure", i - 1, i - 1)]

C9_Witness ==
    /\ pc = "built"
    /\ self.n_counting_qubits = 3
    /\ loc.r = 2
    /\ loc.eigenstate_x
    /\ Cardinality(ControlledUs(circuit, 3)) = 14

\* ------------------------------- simulation() and run_quantum_hardware()
\* the circuit that algorithm() of an object returns (DeutschJozsa: constant
\* oracle with output 0; QuantumPhaseEstimation: repetitions = 1; SimonProblem:
\* identity permutation, no flips); for QuantumFourierTransform it is
\* self.circuit itself after one call
AlgorithmCircuit(cls, obj) ==
    CASE cls = "BernsteinVazirani" -> BVAlgorithm(obj)
      [] cls = "DeutschJozsa" -> DJAlgorithm(obj, DJOracle(obj, 0, 0))
      [] cls = "QuantumFourierTransform" ->
            Flatten([d \in 1..obj.n |-> RotationsFrame(obj.n - d + 1)]) \o SwapRegisters(obj.n)
      [] cls = "QuantumPhaseEstimation" ->
            [q \in 1..obj.n_counting_qubits |-> G1("h", q - 1)]
            \o Flatten([k \in 1..obj.n_counting_qubits |->
                          [r \in 1..Pow2(k - 1) |->
                             CP(obj.angle.num, obj.angle.den, k - 1, obj.n_counting_qubits)]])
            \o QPERest(obj)
      [] cls = "SimonProblem" ->
            [q \in 1..obj.n |-> G1("h", q - 1)] \o <<Barrier>> \o SimonOracleCopyXor(obj)
            \o SimonFlipsAndRest(obj, [i \in 1..obj.n |-> FALSE])

\* the calls into the library that simulation(circuit) of a class makes
SimPlan(cls) ==
    CASE cls = "BernsteinVazirani" -> <<"get_backend", "assemble", "run", "result", "get_counts">>
      [] cls = "DeutschJozsa" ->
            <<"get_backend", "transpile", "assemble", "run", "result", "get_counts">>
      [] cls = "QuantumFourierTransform" ->
            <<"get_backend", "assemble", "run", "result", "get_statevector">>
      [] cls = "QuantumPhaseEstimation" ->
            <<"get_backend", "transpile", "assemble", "run", "result", "get_counts">>
      [] cls = "SimonProblem" -> <<"get_backend", "assemble", "run", "result", "get_counts">>

\* an object of one of the classes and the circuit its algorithm() returned
RunConstruct ==
    /\ pc = "new"
    /\ \E cls \in Classes, n \in 0..MaxBits :
         /\ self' = HWNew(cls, n)
         /\ circuit' = AlgorithmCircuit(cls, HWNew(cls, n))
         /\ loc' = [cls |-> cls, k |-> 0, steps |-> <<>>, backends |-> {}]
    /\ pc' = "constructed"
    /\ UNCHANGED <<amp, clbits, ip, ret>>

\* simulation(circuit): the circuit is handed to transpile / assemble / run,
\* which read it; the method itself calls nothing else on it
RunSimulation ==
    /\ pc = "constructed"
    /\ pc' = "simulated"
    /\ loc' = [loc EXCEPT !.steps = SimPlan(loc.cls)]
    /\ ret' = Append(ret, IF loc.cls = "QuantumFourierTransform" THEN "statevector" ELSE "counts")
    /\ UNCHANGED <<self, circuit, amp, clbits, ip>>

\* the caller goes on to run the same circuit object again
RunAgain ==
    /\ pc \in {"simulated", "returned"}
    /\ Len(ret) < MaxRuns
    /\ pc' = "constructed"
    /\ loc' = [loc EXCEPT !.k = 0, !.steps = <<>>, !.backends = {}]
    /\ UNCHANGED <<self, circuit, amp, clbits, ip, ret>>

NextRuns ==
    \/ RunConstruct \/ RunSimulation \/ RunAgain
    \/ HWCall \/ HWLibraryCall \/ HWBackends \/ HWNoBackend \/ HWReturn

SpecRuns == InitHW /\ [][NextRuns]_vars

\* C11: simulation(circuit) and run_quantum_hardware(circuit) leave the gate
\* sequence of the caller's circuit and every attribute of the algorithm
\* object as they were before the call, in every class: no step taken once the
\* object and its circuit exist changes either.
C11_RunsLeaveCircuitAndObject ==
    [][pc # "new" => (circuit' = circuit /\ self' = self)]_vars

====
